---- MODULE Spec2Model ----
(***************************************************************************)
(* helm-walk: flattening of a YAML node tree into "path<sep>value" lines.  *)
(* Model of src/main.go: findNodeByPath / getMapValue (path resolver),     *)
(* isEmptyNode / walk (tree flattener) and the part of main that connects  *)
(* them.  A Go string is a sequence of one-character strings, so that      *)
(* Split, Index, slicing, Atoi, Join and the formatting are computed as    *)
(* the library computes them.                                              *)
(***************************************************************************)
EXTENDS Integers, Sequences, FiniteSets, TLC

\* ------------------------------------------------------------------ bounds

\* Largest number of nodes (key nodes not counted) of an enumerated tree.
MaxNodes == 4

\* Largest finite depth budget tried (-1, the flag's default, is always tried).
MaxDepth == 2

\* ------------------------------------------------------------- Go strings

Digits == <<"0", "1", "2", "3", "4", "5", "6", "7", "8", "9">>

IsDigit(c) == \E i \in 1..Len(Digits) : Digits[i] = c

DigitVal(c) == (CHOOSE i \in 1..Len(Digits) : Digits[i] = c) - 1

\* strings.Index(s, c) for a one-character c: 0-based, -1 when absent.
Index(s, c) ==
    IF \E i \in 1..Len(s) : s[i] = c
    THEN (CHOOSE i \in 1..Len(s) : s[i] = c /\ \A j \in 1..(i - 1) : s[j] # c) - 1
    ELSE -1

\* strings.Contains(s, c) for a one-character c.
Contains(s, c) == \E i \in 1..Len(s) : s[i] = c

\* strings.ContainsAny(s, chars).
ContainsAny(s, chars) == \E i \in 1..Len(s) : s[i] \in chars

\* A Go slice expression s[lo:hi] is legal iff 0 <= lo <= hi <= len(s).
SliceOk(s, lo, hi) == 0 <= lo /\ lo <= hi /\ hi <= Len(s)

\* The value of a legal s[lo:hi].
Slice(s, lo, hi) == SubSeq(s, lo + 1, hi)

\* strings.Split(s, c) for a one-character c.
RECURSIVE Split(_, _)
Split(s, c) ==
    LET i == Index(s, c) IN
    IF i < 0 THEN <<s>>
    ELSE <<Slice(s, 0, i)>> \o Split(Slice(s, i + 1, Len(s)), c)

\* strings.Join(parts, c).
RECURSIVE Join(_, _)
Join(parts, c) ==
    IF Len(parts) = 0 THEN <<>>
    ELSE IF Len(parts) = 1 THEN parts[1]
    ELSE parts[1] \o <<c>> \o Join(Tail(parts), c)

\* The decimal value of a non-empty string of digits.
RECURSIVE DecValue(_)
DecValue(s) ==
    IF Len(s) = 0 THEN 0
    ELSE 10 * DecValue(SubSeq(s, 1, Len(s) - 1)) + DigitVal(s[Len(s)])

AllDigits(s) == Len(s) > 0 /\ \A i \in 1..Len(s) : IsDigit(s[i])

\* index, _ := strconv.Atoi(s): an optional sign and decimal digits; the
\* error is dropped, so anything else is 0.
Atoi(s) ==
    IF Len(s) > 0 /\ s[1] \in {"+", "-"}
    THEN IF AllDigits(Tail(s))
         THEN (IF s[1] = "-" THEN 0 - DecValue(Tail(s)) ELSE DecValue(Tail(s)))
         ELSE 0
    ELSE IF AllDigits(s) THEN DecValue(s) ELSE 0

\* fmt.Sprintf("%d", n).
RECURSIVE Itoa(_)
Itoa(n) ==
    IF n < 0 THEN <<"-">> \o Itoa(0 - n)
    ELSE IF n < 10 THEN <<Digits[n + 1]>>
    ELSE Itoa(n \div 10) \o <<Digits[(n % 10) + 1]>>

\* White space of strings.TrimSpace.
Space == {" ", "\t", "\n", "\r"}

\* strings.TrimSpace(s) == "".
TrimsToEmpty(s) == \A i \in 1..Len(s) : s[i] \in Space

\* strings.HasPrefix(s, " ").
HasPrefixSpace(s) == Len(s) > 0 /\ s[1] = " "

\* strings.HasSuffix(s, " ").
HasSuffixSpace(s) == Len(s) > 0 /\ s[Len(s)] = " "

\* strings.ReplaceAll(s, "\"", "\\\"").
RECURSIVE EscapeQuotes(_)
EscapeQuotes(s) ==
    IF Len(s) = 0 THEN <<>>
    ELSE (IF s[1] = "\"" THEN <<"\\", "\"">> ELSE <<s[1]>>) \o EscapeQuotes(Tail(s))

\* ------------------------------------------------------------- yaml.Node

\* The scalar styles the flattener distinguishes (yaml.Style).
Styles == {"plain", "quoted", "literal", "folded"}

ScalarNode(v, st) == [Kind |-> "Scalar", Value |-> v, Style |-> st, Content |-> <<>>]

\* A Mapping's Content alternates key node, value node.
MappingNode(c) == [Kind |-> "Mapping", Value |-> <<>>, Style |-> "plain", Content |-> c]

SequenceNode(c) == [Kind |-> "Sequence", Value |-> <<>>, Style |-> "plain", Content |-> c]

\* A nil *yaml.Node.
NilNode == [Kind |-> "nil", Value |-> <<>>, Style |-> "plain", Content |-> <<>>]

\* ------------------------------------------------------------ the resolver

\* getMapValue: the value of the first pair whose key equals key, nil when
\* node is no Mapping or has no such key.
GetMapValue(node, key) ==
    IF node.Kind # "Mapping" THEN NilNode
    ELSE LET hits == {i \in 1..Len(node.Content) :
                         i % 2 = 1 /\ node.Content[i].Value = key}
         IN IF hits = {} THEN NilNode
            ELSE node.Content[(CHOOSE i \in hits : \A j \in hits : i <= j) + 1]

\* Outcomes of the resolver.
Found(n) == [st |-> "ok", node |-> n, name |-> <<>>, index |-> 0]

KeyNotFound(nm) == [st |-> "KeyNotFound", node |-> NilNode, name |-> nm, index |-> 0]

IndexOutOfRange(nm, ix) == [st |-> "IndexOutOfRange", node |-> NilNode, name |-> nm, index |-> ix]

\* A Go run-time panic (slice bounds out of range, index out of range).
Panicked == [st |-> "panic", node |-> NilNode, name |-> <<>>, index |-> 0]

\* The text between '[' and ']' of a part that contains '[':
\* part[strings.Index(part, "[")+1 : strings.Index(part, "]")].
IndexStringOk(part) == SliceOk(part, Index(part, "[") + 1, Index(part, "]"))

IndexString(part) == Slice(part, Index(part, "[") + 1, Index(part, "]"))

\* The name before '[': part[:strings.Index(part, "[")].
IndexedName(part) == Slice(part, 0, Index(part, "["))

\* The test that guards child.Content[index].
IndexRejected(child, index) == child.Kind # "Sequence" \/ index >= Len(child.Content)

\* One iteration of the loop of findNodeByPath, on the node current.
FindStep(current, part) ==
    IF Contains(part, "[")
    THEN IF ~IndexStringOk(part) THEN Panicked
         ELSE LET name  == IndexedName(part)
                  index == Atoi(IndexString(part))
                  child == GetMapValue(current, name)
              IN IF child = NilNode THEN KeyNotFound(name)
                 ELSE IF IndexRejected(child, index) THEN IndexOutOfRange(name, index)
                 ELSE IF index < 0 THEN Panicked
                 ELSE Found(child.Content[index + 1])
    ELSE LET next == GetMapValue(current, part)
         IN IF next = NilNode THEN KeyNotFound(part) ELSE Found(next)

\* findNodeByPath as a whole, from the list of parts.
RECURSIVE FindParts(_, _)
FindParts(current, parts) ==
    IF Len(parts) = 0 THEN Found(current)
    ELSE LET r == FindStep(current, Head(parts))
         IN IF r.st = "ok" THEN FindParts(r.node, Tail(parts)) ELSE r

FindNodeByPath(node, entrypoint) == FindParts(node, Split(entrypoint, "."))

\* ----------------------------------------------------------- the flattener

VARIABLES root, entry, depth, includeEmpty, kvSeparator,
          pc, parts, current, start, pending, walkPanic, out, err

vars == <<root, entry, depth, includeEmpty, kvSeparator,
          pc, parts, current, start, pending, walkPanic, out, err>>

\* isEmptyNode with the branch case lost: only blank scalars are empty.
IsEmptyNode_ScalarsOnly(node) ==
    IF node.Kind = "Scalar" THEN TrimsToEmpty(node.Value) ELSE FALSE

\* isEmptyNode.
IsEmptyNode(node) ==
    IF node.Kind = "Scalar" THEN TrimsToEmpty(node.Value)
    ELSE IF node.Kind \in {"Mapping", "Sequence"} THEN Len(node.Content) = 0
    ELSE FALSE

\* The guard with the includeEmpty test lost: empty nodes are always left out.
Skipped_Always(node) == IsEmptyNode(node)

\* The guard of walk's first statement: the node is left out.
Skipped(node) == ~includeEmpty /\ IsEmptyNode(node)

\* nextRem without the decrement: descending costs nothing.
NextRem_Keep(remain) == remain

\* nextRem: a non-negative budget loses one unit, the unlimited one stays.
NextRem(remain) == IF remain > 0 THEN remain - 1 ELSE remain

\* The placeholders of a branch whose budget is exhausted.
ObjectMark == <<"<", "o", "b", "j", "e", "c", "t", ">">>

ArrayMark == <<"<", "a", "r", "r", "a", "y", ">">>

\* The header of a block scalar.
BlockMark == <<"|", "-">>

\* The characters that make a single-line scalar quoted.
Sensitive == {":", "[", "]", "{", "}", ","}

\* A written line (without its terminating newline) and, as a history
\* annotation, the position under the flattened node of the node it is for:
\* the Content indices from the flattened node down.
Line(text, at) == [text |-> text, at |-> at]

\* The result of a call of walk: the lines written, and whether it panicked.
Lines(ls) == [lines |-> ls, panic |-> FALSE]

WalkPanicked == [lines |-> <<>>, panic |-> TRUE]

\* strings.Join(path, ".") followed by kvSeparator.
PathSep(path) == Join(path, ".") \o kvSeparator

\* The suffixes "[0]...[i]" that pile up when the elements share one slice.
RECURSIVE IndexSuffixes(_)
IndexSuffixes(i) ==
    (IF i = 0 THEN <<>> ELSE IndexSuffixes(i - 1)) \o <<"[">> \o Itoa(i) \o <<"]">>

\* The path of element i when the path is changed in place, not copied.
IndexedPath_Shared(path, i) ==
    [path EXCEPT ![Len(path)] = @ \o IndexSuffixes(i)]

\* The path handed to element i of a sequence: a copy of path whose last
\* segment gets "[i]" appended.
IndexedPath(path, i) ==
    [path EXCEPT ![Len(path)] = @ \o <<"[">> \o Itoa(i) \o <<"]">>]

\* The lines of a block scalar after its header: the value split at the
\* newlines, a final empty piece dropped, each indented by two spaces.
RECURSIVE BlockLines(_, _)
BlockLines(lines, at) ==
    IF Len(lines) = 0 THEN <<>>
    ELSE IF Len(lines) = 1 /\ lines[1] = <<>> THEN <<>>
    ELSE <<Line(<<" ", " ">> \o lines[1], at)>> \o BlockLines(Tail(lines), at)

\* The test for the block form of a scalar.
IsBlock(node) ==
    node.Kind = "Scalar"
        /\ (Contains(node.Value, "\n") \/ node.Style = "literal" \/ node.Style = "folded")

\* The quoting test taking any space, not only a leading or trailing one.
IsQuoted_AnySpace(val) == ContainsAny(val, Sensitive \cup {" "})

\* The test for the quoted form of a single-line scalar.
IsQuoted(val) ==
    ContainsAny(val, Sensitive) \/ HasPrefixSpace(val) \/ HasSuffixSpace(val)

\* The default case of walk: the lines of a scalar.
ScalarLines(node, path, at) ==
    LET val == node.Value IN
    IF IsBlock(node)
    THEN <<Line(PathSep(path) \o BlockMark, at)>> \o BlockLines(Split(val, "\n"), at)
    ELSE IF IsQuoted(val)
    THEN <<Line(PathSep(path) \o <<"\"">> \o EscapeQuotes(val) \o <<"\"">>, at)>>
    ELSE <<Line(PathSep(path) \o val, at)>>

RECURSIVE Walk(_, _, _, _)
RECURSIVE WalkPairs(_, _, _, _, _)
RECURSIVE WalkItems(_, _, _, _, _)

\* The loop over the pairs of a Mapping, from Content index i on.
WalkPairs(node, i, path, nextRem, at) ==
    IF i >= Len(node.Content) THEN Lines(<<>>)
    ELSE LET keyNode   == node.Content[i + 1]
             valueNode == node.Content[i + 2]
             r == Walk(valueNode, Append(path, keyNode.Value), nextRem, Append(at, i + 1))
         IN IF r.panic THEN r
            ELSE LET rest == WalkPairs(node, i + 2, path, nextRem, at)
                 IN [lines |-> r.lines \o rest.lines, panic |-> rest.panic]

\* The loop over the elements of a Sequence, from index i on;
\* p[len(p)-1] panics when the path is empty.
WalkItems(node, i, path, nextRem, at) ==
    IF i >= Len(node.Content) THEN Lines(<<>>)
    ELSE IF Len(path) = 0 THEN WalkPanicked
    ELSE LET r == Walk(node.Content[i + 1], IndexedPath(path, i), nextRem, Append(at, i))
         IN IF r.panic THEN r
            ELSE LET rest == WalkItems(node, i + 1, path, nextRem, at)
                 IN [lines |-> r.lines \o rest.lines, panic |-> rest.panic]

\* walk(node, path, out, remain).
Walk(node, path, remain, at) ==
    IF Skipped(node) THEN Lines(<<>>)
    ELSE IF node.Kind = "Mapping"
    THEN IF remain = 0 THEN Lines(<<Line(PathSep(path) \o ObjectMark, at)>>)
         ELSE WalkPairs(node, 0, path, NextRem(remain), at)
    ELSE IF node.Kind = "Sequence"
    THEN IF remain = 0 THEN Lines(<<Line(PathSep(path) \o ArrayMark, at)>>)
         ELSE WalkItems(node, 0, path, NextRem(remain), at)
    ELSE Lines(ScalarLines(node, path, at))

\* entryPath never filled in: the resolved node is flattened without prefix.
EntryPath_None(e) == <<>>

\* The prefix main hands to walk: entryPath.
EntryPath(e) == IF e = <<>> THEN <<>> ELSE Split(e, ".")

\* ------------------------------------------------------------------ inputs

\* The key/value separators main accepts.
Seps == {<<":", " ">>, <<"=">>}

Keys == {<<"a">>, <<"b">>}

KeyNode(k) == ScalarNode(k, "plain")

\* The leaves of the enumerated trees: a scalar, a blank scalar, {} and [].
Leaves ==
    {ScalarNode(<<"x">>, "plain"), ScalarNode(<<>>, "plain"),
     MappingNode(<<>>), SequenceNode(<<>>)}

\* The leaves of the trees paths are resolved in: a scalar, a scalar of two
\* lines and [].
ResolveLeaves ==
    {ScalarNode(<<"x">>, "plain"), ScalarNode(<<"x", "\n", "y">>, "plain"), SequenceNode(<<>>)}

RECURSIVE TreesOfSize(_, _)
RECURSIVE Forests(_, _, _)
RECURSIVE PairLists(_, _, _)
RECURSIVE Trees(_, _)

\* The lists of trees with m nodes in all whose first tree has at least j
\* nodes, over the leaves L.
Forests(m, j, L) ==
    IF m = 0 THEN {<<>>}
    ELSE IF j > m THEN {}
    ELSE {<<t>> \o f : t \in TreesOfSize(j, L), f \in Forests(m - j, 1, L)}
             \cup Forests(m, j + 1, L)

\* The key/value lists whose values have m nodes in all, the first value
\* at least j.
PairLists(m, j, L) ==
    IF m = 0 THEN {<<>>}
    ELSE IF j > m THEN {}
    ELSE {<<KeyNode(k), t>> \o f :
             k \in Keys, t \in TreesOfSize(j, L), f \in PairLists(m - j, 1, L)}
             \cup PairLists(m, j + 1, L)

\* The trees of exactly n nodes (duplicate keys included).
TreesOfSize(n, L) ==
    IF n = 1 THEN L
    ELSE {SequenceNode(c) : c \in Forests(n - 1, 1, L)}
             \cup {MappingNode(c) : c \in PairLists(n - 1, 1, L)}

\* The trees of at most n nodes.
Trees(n, L) == IF n = 0 THEN {} ELSE TreesOfSize(n, L) \cup Trees(n - 1, L)

\* Scalar values that exercise every formatting rule.
ScalarValues ==
    {<<"x">>, <<>>, <<" ">>, <<"\t">>, <<"x", " ", "y">>, <<"x", ":">>, <<" ", "x">>,
     <<"x", " ">>, <<"x", "=", "y">>, <<"x", "\"">>, <<"\"", ",">>,
     <<"x", "\n", "y", "\n">>, <<"x", "\n", "y">>, <<"\n">>}

Scalars == {ScalarNode(v, st) : v \in ScalarValues, st \in Styles}

\* A scalar as the document, as a mapping value and as a sequence element.
ScalarTrees ==
    Scalars \cup {MappingNode(<<KeyNode(<<"a">>), s>>) : s \in Scalars}
            \cup {MappingNode(<<KeyNode(<<"a">>), SequenceNode(<<s>>)>>) : s \in Scalars}

\* Path expressions: plain and indexed segments, in and out of range, a
\* negative index, non-canonical and malformed index syntax.
ResolveEntries ==
    {<<>>, <<"a">>, <<"b">>, <<"a", ".", "b">>, <<"a", ".", "a">>,
     <<"a", "[", "0", "]">>, <<"a", "[", "1", "]">>, <<"a", "[", "5", "]">>,
     <<"a", "[", "-", "1", "]">>, <<"a", "[", "0", "]", ".", "b">>,
     <<"a", "[", "0", "1", "]">>, <<"a", "[", "x", "]">>, <<"a", "[", "]">>,
     <<"a", "[", "0">>, <<"a", "]", "[">>, <<"a", ".", "b", "[", "0", "]">>}

FlattenEntries == {<<>>, <<"a">>, <<"a", "[", "0", "]">>}

ScalarEntries == {<<>>, <<"a">>, <<"a", "[", "0", "]">>}

\* ------------------------------------------------------------------- main

NoError == [st |-> "none", node |-> NilNode, name |-> <<>>, index |-> 0]

\* The state after flag and document parsing, for given inputs.
InitWith(T, E, D, S) ==
    /\ root \in T
    /\ entry \in E
    /\ depth \in D
    /\ includeEmpty \in BOOLEAN
    /\ kvSeparator \in S
    /\ pc = "main"
    /\ parts = <<>>
    /\ current = NilNode
    /\ start = NilNode
    /\ pending = <<>>
    /\ walkPanic = FALSE
    /\ out = <<>>
    /\ err = NoError

Init == InitWith(Trees(MaxNodes, Leaves), FlattenEntries, -1..MaxDepth, {<<":", " ">>})

InitResolve == InitWith(Trees(MaxNodes, ResolveLeaves), ResolveEntries, {-1}, {<<":", " ">>})

InitScalar == InitWith(ScalarTrees, ScalarEntries, -1..MaxDepth, Seps)

Inputs == <<root, entry, depth, includeEmpty, kvSeparator>>

\* The call walk(node, entryPath, out, depth) of main: its lines are
\* written one by one by WriteLine.
CallWalk(node) ==
    LET r == Walk(node, EntryPath(entry), depth, <<>>) IN
    /\ start' = node
    /\ pending' = r.lines
    /\ walkPanic' = r.panic
    /\ pc' = "walk"

\* main, entry == "": walk(rootNode, entryPath, out, depth).
MainNoEntry ==
    /\ pc = "main"
    /\ entry = <<>>
    /\ CallWalk(root)
    /\ UNCHANGED <<Inputs, parts, current, out, err>>

\* main, entry != "": the call of findNodeByPath, up to its loop.
MainEntry ==
    /\ pc = "main"
    /\ entry # <<>>
    /\ parts' = Split(entry, ".")
    /\ current' = root
    /\ pc' = "resolve"
    /\ UNCHANGED <<Inputs, start, pending, walkPanic, out, err>>

\* The step with main ignoring the error: the node reached so far is
\* flattened.
ResolveStep_Partial ==
    /\ pc = "resolve"
    /\ parts # <<>>
    /\ LET r == FindStep(current, Head(parts)) IN
          IF r.st = "ok"
          THEN /\ current' = r.node
               /\ parts' = Tail(parts)
               /\ UNCHANGED <<pc, err, start, pending, walkPanic>>
          ELSE /\ err' = r
               /\ CallWalk(current)
               /\ UNCHANGED <<current, parts>>
    /\ UNCHANGED <<Inputs, out>>

\* One iteration of the loop of findNodeByPath; on an error main prints it
\* and returns, a panic ends the program.
ResolveStep ==
    /\ pc = "resolve"
    /\ parts # <<>>
    /\ LET r == FindStep(current, Head(parts)) IN
          IF r.st = "ok"
          THEN /\ current' = r.node
               /\ parts' = Tail(parts)
               /\ UNCHANGED <<pc, err>>
          ELSE /\ err' = r
               /\ pc' = IF r.st = "panic" THEN "panic" ELSE "error"
               /\ UNCHANGED <<current, parts>>
    /\ UNCHANGED <<Inputs, start, pending, walkPanic, out>>

\* findNodeByPath returns current, nil; main calls walk on it.
ResolveReturn ==
    /\ pc = "resolve"
    /\ parts = <<>>
    /\ CallWalk(current)
    /\ UNCHANGED <<Inputs, parts, current, out, err>>

\* One fmt.Fprintf of walk.
WriteLine ==
    /\ pc = "walk"
    /\ pending # <<>>
    /\ out' = Append(out, Head(pending))
    /\ pending' = Tail(pending)
    /\ UNCHANGED <<Inputs, pc, parts, current, start, walkPanic, err>>

\* walk returns to main, or panics after the lines written so far.
WalkReturn ==
    /\ pc = "walk"
    /\ pending = <<>>
    /\ pc' = IF walkPanic THEN "panic" ELSE "done"
    /\ UNCHANGED <<Inputs, parts, current, start, pending, walkPanic, out, err>>

Next ==
    \/ MainNoEntry
    \/ MainEntry
    \/ ResolveStep
    \/ ResolveReturn
    \/ WriteLine
    \/ WalkReturn

Spec == Init /\ [][Next]_vars

SpecResolve == InitResolve /\ [][Next]_vars

SpecScalar == InitScalar /\ [][Next]_vars

\* ------------------------------------------------- vocabulary of the claims

\* The texts of a list of lines.
Texts(ls) == [i \in 1..Len(ls) |-> ls[i].text]

\* s begins with p.
StartsWith(s, p) == Len(p) <= Len(s) /\ SubSeq(s, 1, Len(p)) = p

\* s ends with p.
EndsWith(s, p) == Len(p) <= Len(s) /\ SubSeq(s, Len(s) - Len(p) + 1, Len(s)) = p

\* The 0-based position of the first occurrence of sub in s, -1 when absent.
IndexOfSub(s, sub) ==
    LET occ == {i \in 0..(Len(s) - Len(sub)) : SubSeq(s, i + 1, i + Len(sub)) = sub}
    IN IF occ = {} THEN -1 ELSE CHOOSE i \in occ : \A j \in occ : i <= j

\* A line of a block scalar after its header: it carries no path.
IsContinuation(text) == StartsWith(text, <<" ", " ">>)

\* The path of a line: what precedes the first separator.
PathText(text) == SubSeq(text, 1, IndexOfSub(text, kvSeparator))

\* What follows the first separator of a line.
AfterSep(text) ==
    SubSeq(text, IndexOfSub(text, kvSeparator) + Len(kvSeparator) + 1, Len(text))

\* The number of occurrences of the character c in s.
Count(s, c) == Cardinality({i \in 1..Len(s) : s[i] = c})

\* The segments of a displayed path: its '.'-separated keys and its [N] suffixes.
SegmentCount(p) == (IF Len(p) = 0 THEN 0 ELSE 1 + Count(p, ".")) + Count(p, "[")

\* The prefix the lines start from, as displayed.
PrefixText == Join(EntryPath(entry), ".")

\* Lexicographic order of positions, a position before those below it.
RECURSIVE LexLeq(_, _)
LexLeq(a, b) ==
    IF Len(a) = 0 THEN TRUE
    ELSE IF Len(b) = 0 THEN FALSE
    ELSE IF a[1] # b[1] THEN a[1] < b[1]
    ELSE LexLeq(Tail(a), Tail(b))

\* The path of the node at position at under node, whose own path is path:
\* a key is a new segment, an index is attached to the last segment.
RECURSIVE PathAlong(_, _, _)
PathAlong(node, path, at) ==
    IF Len(at) = 0 THEN path
    ELSE IF node.Kind = "Mapping"
    THEN PathAlong(node.Content[at[1] + 1], path \o <<node.Content[at[1]].Value>>, Tail(at))
    ELSE PathAlong(node.Content[at[1] + 1],
                   SubSeq(path, 1, Len(path) - 1)
                       \o <<path[Len(path)] \o <<"[">> \o Itoa(at[1]) \o <<"]">>>>,
                   Tail(at))

\* Every descendant of the node is empty: blank scalars, {} and [], nested.
RECURSIVE AllEmpty(_)
AllEmpty(node) ==
    IF node.Kind = "Scalar" THEN \A i \in 1..Len(node.Value) : node.Value[i] \in Space
    ELSE IF node.Kind = "Mapping"
    THEN \A i \in 1..Len(node.Content) : i % 2 = 0 => AllEmpty(node.Content[i])
    ELSE \A i \in 1..Len(node.Content) : AllEmpty(node.Content[i])

\* The children of a branch node.
Children(node) ==
    IF node.Kind = "Mapping"
    THEN {node.Content[i] : i \in {j \in 1..Len(node.Content) : j % 2 = 0}}
    ELSE {node.Content[i] : i \in 1..Len(node.Content)}

\* The number of nested levels of branches that have children.
RECURSIVE Height(_)
Height(node) ==
    IF Children(node) = {} THEN 0
    ELSE 1 + (CHOOSE h \in {Height(c) : c \in Children(node)} :
                 \A c \in Children(node) : Height(c) <= h)

\* The integers written as indices in the path expressions.
IndexRange == (0 - 2)..6

\* part is name[N], N written in decimal.
IsIndexed(part, name, N) == part = name \o <<"[">> \o Itoa(N) \o <<"]">>

\* part contains '[' and is not name[N] for a bracket-free name and an integer N.
Malformed(part) ==
    /\ Contains(part, "[")
    /\ ~ \E k \in 1..Len(part) :
           /\ part[k] = "["
           /\ part[Len(part)] = "]"
           /\ ~ContainsAny(SubSeq(part, 1, k - 1), {"[", "]"})
           /\ LET d == SubSeq(part, k + 1, Len(part) - 1)
              IN AllDigits(d) \/ (Len(d) > 1 /\ d[1] = "-" /\ AllDigits(Tail(d)))

\* The resolver has reported KeyNotFound or IndexOutOfRange.
Failed == err.st \in {"KeyNotFound", "IndexOutOfRange"}

\* Every part of the path expression is a key or key[N] with N >= 0 in
\* plain decimal.
Canonical(e) ==
    \A i \in 1..Len(Split(e, ".")) :
        LET part == Split(e, ".")[i]
        IN Contains(part, "[") =>
               \E N \in 0..6 : \E k \in Keys : IsIndexed(part, k, N)

\* The key of part.
PartKey(part) == IF Contains(part, "[") THEN SubSeq(part, 1, Index(part, "[")) ELSE part

\* Each key the parts select occurs once in its mapping.
RECURSIVE UniqueAlong(_, _)
UniqueAlong(node, ps) ==
    IF Len(ps) = 0 THEN TRUE
    ELSE /\ node.Kind = "Mapping"
         /\ Cardinality({i \in 1..Len(node.Content) :
                            i % 2 = 1 /\ node.Content[i].Value = PartKey(Head(ps))}) = 1
         /\ LET r == FindStep(node, Head(ps))
            IN r.st = "ok" /\ UniqueAlong(r.node, Tail(ps))

\* The displayed path p is P or lies below P.
HasPathPrefix(p, P) ==
    p = P \/ StartsWith(p, P \o <<".">>) \/ StartsWith(p, P \o <<"[">>)

\* The lines whose path starts with P, in their order; the lines of a block
\* scalar go with their header (keep: the last header was selected).
RECURSIVE SelectFrom(_, _, _)
SelectFrom(ls, P, keep) ==
    IF Len(ls) = 0 THEN <<>>
    ELSE LET k == IF IsContinuation(Head(ls).text) THEN keep
                  ELSE HasPathPrefix(PathText(Head(ls).text), P)
         IN (IF k THEN <<Head(ls)>> ELSE <<>>) \o SelectFrom(Tail(ls), P, k)

SelectPrefix(ls, P) == SelectFrom(ls, P, FALSE)

\* The lines of flattening the whole document, unlimited depth.
RootLines == Walk(root, <<>>, -1, <<>>).lines

\* A scalar value the verbatim rule is about.
Plainish(v) ==
    /\ \A i \in 1..Len(v) : v[i] \notin {":", "[", "]", "{", "}", ",", "\n"}
    /\ (Len(v) > 0 => v[1] # " " /\ v[Len(v)] # " ")

Blank(v) == \A i \in 1..Len(v) : v[i] \in Space

\* ------------------------------------------------------------------ claims

\* C1 (as stated): for an indexed segment name[N], N any integer, whose
\* name resolves in the current mapping to a Sequence, the resolver descends
\* into element N when 0 <= N < len and otherwise reports
\* IndexOutOfRange(name, N); it has no other outcome.
C1_IndexedSegmentOutcome ==
    [][\A N \in IndexRange : \A name \in Keys :
          (/\ pc = "resolve"
           /\ parts # <<>>
           /\ IsIndexed(Head(parts), name, N)
           /\ GetMapValue(current, name).Kind = "Sequence")
          => LET child == GetMapValue(current, name)
             IN IF 0 <= N /\ N < Len(child.Content)
                THEN pc' = "resolve" /\ current' = child.Content[N + 1]
                ELSE pc' = "error" /\ err' = IndexOutOfRange(name, N)]_vars

\* C2: with a depth budget d >= 0, every written line that has a path has
\* at most d segments more than the starting prefix, a '.'-separated key
\* and an [N] suffix counting one segment each.
C2_DepthBound ==
    depth >= 0 =>
        \A i \in 1..Len(out) :
            ~IsContinuation(out[i].text) =>
                SegmentCount(PathText(out[i].text)) <= SegmentCount(PrefixText) + depth

\* C2 witness: a finished run with budget 1 below the prefix "a" that wrote
\* a line one segment below the prefix and truncated a branch there.
C2_Witness ==
    /\ pc = "done"
    /\ depth = 1
    /\ entry = <<"a">>
    /\ \E i \in 1..Len(out) :
           /\ SegmentCount(PathText(out[i].text)) = SegmentCount(PrefixText) + 1
           /\ EndsWith(out[i].text, ObjectMark)
    /\ \E i \in 1..Len(out) : EndsWith(out[i].text, <<"x">>)

\* C3 (as stated): with includeEmpty false, flattening a mapping whose
\* every descendant is empty writes no line, whatever the depth budget.
C3_NoLinesAnyBudget ==
    (pc = "done" /\ start.Kind = "Mapping" /\ ~includeEmpty /\ AllEmpty(start))
        => out = <<>>

\* C3 (amended): with includeEmpty false, flattening a mapping whose every
\* descendant is empty writes no line when the depth budget is unlimited
\* or at least the number of nested levels of branches that have children.
C3_NoLinesUntruncated ==
    (/\ pc = "done"
     /\ start.Kind = "Mapping"
     /\ ~includeEmpty
     /\ AllEmpty(start)
     /\ (depth < 0 \/ depth >= Height(start)))
        => out = <<>>

\* C3 witness: a mapping with two nested levels of empty content, flattened
\* with a finite budget that reaches its bottom.
C3_Witness ==
    /\ pc = "done"
    /\ start.Kind = "Mapping"
    /\ ~includeEmpty
    /\ AllEmpty(start)
    /\ Height(start) = 2
    /\ depth = 2
    /\ out = <<>>

\* C4 (as stated): flattening a Mapping with depth budget 0 writes exactly
\* the line <prefix><sep><object>, for every content of the mapping and
\* both values of includeEmpty.
C4_OneObjectLine ==
    (pc = "done" /\ start.Kind = "Mapping" /\ depth = 0)
        => Texts(out) = <<PrefixText \o kvSeparator \o ObjectMark>>

\* C4 (amended): flattening a Mapping with depth budget 0 writes exactly
\* the line <prefix><sep><object>, except that a mapping with no pairs
\* under includeEmpty false writes nothing.
C4_OneObjectLineUnlessSkipped ==
    (pc = "done" /\ start.Kind = "Mapping" /\ depth = 0)
        => Texts(out) = IF ~includeEmpty /\ Len(start.Content) = 0
                        THEN <<>>
                        ELSE <<PrefixText \o kvSeparator \o ObjectMark>>

\* C4 witness: a mapping with pairs, reached below the prefix "a", flattened
\* with budget 0 into one line.
C4_Witness ==
    /\ pc = "done"
    /\ start.Kind = "Mapping"
    /\ depth = 0
    /\ entry = <<"a">>
    /\ Len(start.Content) >= 2
    /\ Len(out) = 1

\* C5 (as stated): when the path expression resolves, the lines of
\* flattening the resolved node under the prefix of the expression are, in
\* order, the lines of flattening the whole document whose path starts
\* with the expression, duplicate keys and index segments included.
C5_SubtreeLines ==
    (pc = "done" /\ entry # <<>> /\ depth < 0)
        => Texts(out) = Texts(SelectPrefix(RootLines, entry))

\* C5 (amended): the same equality, provided each key the expression
\* selects occurs once in its mapping and each index segment is written
\* key[N] with N >= 0 in plain decimal.
C5_SubtreeLinesUniqueKeys ==
    (/\ pc = "done"
     /\ entry # <<>>
     /\ depth < 0
     /\ Canonical(entry)
     /\ UniqueAlong(root, Split(entry, ".")))
        => Texts(out) = Texts(SelectPrefix(RootLines, entry))

\* C5 witness: an expression with an index segment resolved to a scalar of
\* two lines, its lines written, the document having other lines as well.
C5_Witness ==
    /\ pc = "done"
    /\ depth < 0
    /\ start.Kind = "Scalar"
    /\ Contains(start.Value, "\n")
    /\ Contains(entry, "[")
    /\ Canonical(entry)
    /\ UniqueAlong(root, Split(entry, "."))
    /\ Len(out) >= 1
    /\ Len(RootLines) > Len(out)

\* C6: the lines are written in depth-first, left-to-right order of the
\* nodes they are for, and the path of each is the prefix extended by the
\* keys and indices on the way to its node, and by nothing else.
C6_DepthFirstOrder ==
    \A i \in 1..Len(out) :
        /\ \A j \in (i + 1)..Len(out) : LexLeq(out[i].at, out[j].at)
        /\ ~IsContinuation(out[i].text) =>
               PathText(out[i].text) = Join(PathAlong(start, EntryPath(entry), out[i].at), ".")

\* C6 witness: a finished run that wrote, in this order, the lines of two
\* elements of one sequence.
C6_Witness ==
    /\ pc = "done"
    /\ \E i, j \in 1..Len(out) :
           /\ i < j
           /\ Len(out[i].at) = 2 /\ Len(out[j].at) = 2
           /\ out[i].at[1] = out[j].at[1]
           /\ out[i].at[2] < out[j].at[2]
           /\ Contains(out[j].text, "[")

C8_NoOutputOnError ==
    /\ [](Failed => out = <<>> /\ pending = <<>> /\ pc = "error")
    /\ []((out # <<>> \/ pending # <<>>) => pc \in {"walk", "done", "panic"} /\ parts = <<>>)
    /\ [][Failed => UNCHANGED <<pc, out, pending, start>>]_vars

\* C8 witness: the resolver has reported an index out of range after a
\* first segment resolved.
C8_Witness ==
    /\ pc = "error"
    /\ err.st = "IndexOutOfRange"
    /\ Len(parts) = 1
    /\ Len(Split(entry, ".")) = 2
    /\ out = <<>>

\* C9 (as stated): a segment that contains '[' with malformed index syntax
\* is resolved as name[0]: into element 0 of the sequence, or KeyNotFound,
\* or IndexOutOfRange, and nothing else.
C9_MalformedIndexIsZero ==
    [][(pc = "resolve" /\ parts # <<>> /\ Malformed(Head(parts)))
          => LET name  == SubSeq(Head(parts), 1, Index(Head(parts), "["))
                 child == GetMapValue(current, name)
             IN \/ /\ child.Kind = "Sequence"
                   /\ Len(child.Content) > 0
                   /\ pc' = "resolve"
                   /\ current' = child.Content[1]
                \/ /\ child = NilNode
                   /\ pc' = "error"
                   /\ err' = KeyNotFound(name)
                \/ /\ child # NilNode
                   /\ ~(child.Kind = "Sequence" /\ Len(child.Content) > 0)
                   /\ pc' = "error"
                   /\ err' = IndexOutOfRange(name, 0)]_vars

\* C10 (as stated): flattening ends normally for every tree, budget,
\* includeEmpty and prefix, the empty prefix on a Sequence root included.
C10_FlattenEndsNormally == ~(pc = "panic" /\ walkPanic)

====
